---- MODULE Spec2Model ----
(***************************************************************************)
(* burst-trigger.c: the barrier-synchronised burst cycle (coordinator,     *)
(* accumulator, converters), the crash-persistence record (save_state,     *)
(* check_previous_crash, sighandler) and main's shutdown sequence.         *)
(*                                                                         *)
(* Every atomic_load / atomic_store / atomic_fetch_add of the source is    *)
(* one step of the thread that performs it; a thread's position is the     *)
(* source line it is about to execute (c141 = coordinator at line 141).    *)
(* A spin-wait `while (cond && running)` is a step enabled when a load     *)
(* would end the loop.                                                     *)
(***************************************************************************)
EXTENDS Integers, Sequences, FiniteSets, TLC

(***************************************************************************)
(* Bounds of the model.                                                    *)
(***************************************************************************)
\* num_converters ranges over 1..MaxConverters
MaxConverters == 2
\* items per burst: stands for num_files (10..10000 after lines 390-391); each
\* loop over the items does the same for every item
NumFiles == 2
\* ready_count is explored up to this value while the run is live
MaxReady == 3
\* completed bursts explored while the run is live
MaxBursts == 1
\* total_conversions explored while the run is live
MaxConversions == 2
\* deliveries of SIGINT/SIGTERM
MaxSignals == 2
\* periodic snapshots taken by main's loop while the run is live
MaxSaves == 1
\* quorum and callers of the stand-alone barrier_signal_and_wait
MaxQuorum == 3
\* converters (1..PartW) and items (0..PartF) for which the partitions are computed
PartW == 4
PartF == 6
\* width of int in the model (32 in the build, whose values TLC cannot hold)
IntBits == 16

(***************************************************************************)
(* Phase definitions, burst-trigger.c:73-76.                               *)
(***************************************************************************)
PHASE_ACCUMULATE == 0
PHASE_TRIGGER == 1
PHASE_CONVERT == 2
PHASE_CLEANUP == 3

Phases == {PHASE_ACCUMULATE, PHASE_TRIGGER, PHASE_CONVERT, PHASE_CLEANUP}

VARIABLES
    \* configuration fixed before the threads start
    num_converters, num_files,
    \* struct burst_barrier and the global atomics
    phase, ready_count, burst_count, total_conversions, running,
    \* file_fds[i] >= 0, as a boolean
    file_fds,
    \* coordinator_thread: position and its local `bursts`
    cpc, bursts,
    \* accumulator_thread: position and loop index
    apc, ai,
    \* converter_thread[id]: position, loop index, local_conversions
    vpc, vi, local_conversions,
    \* main: position, position inside save_state, the local run_state, saves done
    mpc, msv, mstate, saves,
    \* sighandler: deliveries so far, the thread it runs on, position, local run_state
    signals, hhost, hpc, hstate,
    \* STATE_FILE on disk
    state_file,
    \* the process ("run", "exited", "crashed") and the next invocation's
    \* check_previous_crash: calls made, last return value, last report
    proc, checks, check_ret, report,
    \* observers (history, never read by the program)
    arrivals, acc_signalled, reset_since_advance, pre_check_file,
    \* stand-alone barrier_signal_and_wait: the phase before the calls, the
    \* arguments, each caller's position and local `ready`, stores into phase
    b_phase0, b_next, b_count, bpc, b_ready, b_advances,
    \* the numbers given with -f and -c (lines 372-375), and the partitions the
    \* converters have computed so far (lines 241-242), converter id -> [start, end]
    arg_files, arg_converters, p_parts

inputVars == <<arg_files, arg_converters, p_parts>>
barrierVars == <<phase, ready_count, burst_count, total_conversions, running, file_fds>>
configVars == <<num_converters, num_files>>
coordVars == <<cpc, bursts>>
accVars == <<apc, ai>>
convVars == <<vpc, vi, local_conversions>>
mainVars == <<mpc, msv, mstate, saves>>
sigVars == <<signals, hhost, hpc, hstate>>
fileVars == <<state_file>>
sessionVars == <<proc, checks, check_ret, report, pre_check_file>>
histVars == <<arrivals, acc_signalled, reset_since_advance>>
harnessVars == <<b_phase0, b_next, b_count, bpc, b_ready, b_advances>>

vars == <<inputVars, configVars, barrierVars, coordVars, accVars, convVars, mainVars, sigVars,
          fileVars, sessionVars, histVars, harnessVars>>

Converters == 0 .. (num_converters - 1)

\* thread identities, for the thread a signal handler runs on
MainThread == <<"main", 0>>
CoordThread == <<"coord", 0>>
AccumThread == <<"accum", 0>>
ConvThread(id) == <<"conv", id>>
NoThread == <<"none", 0>>

\* a thread executes its own code only while the process lives and no
\* signal handler is running on top of it
Runs(t) == proc = "run" /\ hhost # t

(***************************************************************************)
(* Observers.  arrivals[id]: arrivals (line 272) of converter id since the *)
(* phase was last stored CONVERT, counted 0, 1, 2 = more than once.        *)
(* acc_signalled: the accumulator has finished a creation pass and         *)
(* signalled (line 202) since the coordinator last stored TRIGGER.         *)
(* reset_since_advance: ready_count was stored 0 since the last change of  *)
(* phase.                                                                  *)
(***************************************************************************)
Bump(n) == IF n < 2 THEN n + 1 ELSE 2

\* a store of p into barrier.phase, with the observers that follow the phase
StorePhase(p) ==
    /\ phase' = p
    /\ reset_since_advance' = IF p # phase THEN FALSE ELSE reset_since_advance

(***************************************************************************)
(* coordinator_thread, burst-trigger.c:118-177                             *)
(***************************************************************************)
\* line 127: while (atomic_load(&running))
c127 ==
    /\ Runs(CoordThread) /\ cpc = "c127"
    /\ cpc' = IF running THEN "c131" ELSE "done"
    /\ UNCHANGED <<inputVars, configVars, barrierVars, bursts, accVars, convVars, mainVars,
                   sigVars, fileVars, sessionVars, histVars, harnessVars>>

\* line 131: atomic_load(&barrier.phase) != PHASE_ACCUMULATE
c131 ==
    /\ Runs(CoordThread) /\ cpc = "c131"
    /\ cpc' = IF phase # PHASE_ACCUMULATE THEN "c133" ELSE "c132"
    /\ UNCHANGED <<inputVars, configVars, barrierVars, bursts, accVars, convVars, mainVars,
                   sigVars, fileVars, sessionVars, histVars, harnessVars>>

\* line 132: atomic_load(&barrier.ready_count) < 1
c132 ==
    /\ Runs(CoordThread) /\ cpc = "c132"
    /\ cpc' = IF ready_count < 1 THEN "c133" ELSE "c141"
    /\ UNCHANGED <<inputVars, configVars, barrierVars, bursts, accVars, convVars, mainVars,
                   sigVars, fileVars, sessionVars, histVars, harnessVars>>

\* lines 133-134: if (!atomic_load(&running)) return NULL; usleep(100);
c133 ==
    /\ Runs(CoordThread) /\ cpc = "c133"
    /\ cpc' = IF running THEN "c131" ELSE "done"
    /\ UNCHANGED <<inputVars, configVars, barrierVars, bursts, accVars, convVars, mainVars,
                   sigVars, fileVars, sessionVars, histVars, harnessVars>>

\* lines 141-149: atomic_store(&barrier.phase, PHASE_TRIGGER), then
\* sync_file_range on every open item, which returns without waiting
c141 ==
    /\ Runs(CoordThread) /\ cpc = "c141"
    /\ StorePhase(PHASE_TRIGGER)
    /\ acc_signalled' = FALSE
    /\ cpc' = "c155"
    /\ UNCHANGED <<inputVars, configVars, ready_count, burst_count, total_conversions, running,
                   file_fds, bursts, accVars, convVars, mainVars, sigVars, fileVars,
                   sessionVars, arrivals, harnessVars>>

\* line 155: atomic_store(&barrier.phase, PHASE_CONVERT)
c155 ==
    /\ Runs(CoordThread) /\ cpc = "c155"
    /\ StorePhase(PHASE_CONVERT)
    /\ arrivals' = [id \in Converters |-> 0]
    /\ cpc' = "c158"
    /\ UNCHANGED <<inputVars, configVars, ready_count, burst_count, total_conversions, running,
                   file_fds, bursts, accVars, convVars, mainVars, sigVars, fileVars,
                   sessionVars, acc_signalled, harnessVars>>

\* line 158: while (atomic_load(&barrier.phase) == PHASE_CONVERT)
c158 ==
    /\ Runs(CoordThread) /\ cpc = "c158"
    /\ cpc' = IF phase = PHASE_CONVERT THEN "c159" ELSE "c163"
    /\ UNCHANGED <<inputVars, configVars, barrierVars, bursts, accVars, convVars, mainVars,
                   sigVars, fileVars, sessionVars, histVars, harnessVars>>

\* lines 159-160: if (!atomic_load(&running)) return NULL; usleep(10);
c159 ==
    /\ Runs(CoordThread) /\ cpc = "c159"
    /\ cpc' = IF running THEN "c158" ELSE "done"
    /\ UNCHANGED <<inputVars, configVars, barrierVars, bursts, accVars, convVars, mainVars,
                   sigVars, fileVars, sessionVars, histVars, harnessVars>>

\* lines 163-164: bursts++; atomic_store(&barrier.burst_count, bursts)
c163 ==
    /\ Runs(CoordThread) /\ cpc = "c163"
    /\ bursts < MaxBursts \/ ~running
    /\ bursts' = bursts + 1
    /\ burst_count' = bursts + 1
    /\ cpc' = "c127"
    /\ UNCHANGED <<inputVars, configVars, phase, ready_count, total_conversions, running, file_fds,
                   accVars, convVars, mainVars, sigVars, fileVars, sessionVars,
                   histVars, harnessVars>>

coordinator_thread ==
    c127 \/ c131 \/ c132 \/ c133 \/ c141 \/ c155 \/ c158 \/ c159 \/ c163

(***************************************************************************)
(* accumulator_thread, burst-trigger.c:182-227                             *)
(***************************************************************************)
\* line 187: while (atomic_load(&running))
a187 ==
    /\ Runs(AccumThread) /\ apc = "a187"
    /\ apc' = IF running THEN "a193" ELSE "done"
    /\ ai' = 0
    /\ UNCHANGED <<inputVars, configVars, barrierVars, coordVars, convVars, mainVars, sigVars,
                   fileVars, sessionVars, histVars, harnessVars>>

\* lines 193-199: one iteration of the creation loop, i < num_files && running;
\* open() may fail and leave file_fds[i] < 0
a193 ==
    /\ Runs(AccumThread) /\ apc = "a193"
    /\ IF running
       THEN /\ \E opened \in BOOLEAN : file_fds' = [file_fds EXCEPT ![ai] = opened]
            /\ ai' = ai + 1
            /\ apc' = IF ai + 1 < num_files THEN "a193" ELSE "a202"
       ELSE /\ apc' = "a202"
            /\ UNCHANGED <<file_fds, ai>>
    /\ UNCHANGED <<inputVars, configVars, phase, ready_count, burst_count, total_conversions,
                   running, coordVars, convVars, mainVars, sigVars, fileVars,
                   sessionVars, histVars, harnessVars>>

\* line 202: atomic_fetch_add(&barrier.ready_count, 1)
a202 ==
    /\ Runs(AccumThread) /\ apc = "a202"
    /\ ready_count < MaxReady \/ ~running
    /\ ready_count' = ready_count + 1
    /\ acc_signalled' = (ai = num_files)
    /\ apc' = "a204"
    /\ UNCHANGED <<inputVars, configVars, phase, burst_count, total_conversions, running, file_fds,
                   ai, coordVars, convVars, mainVars, sigVars, fileVars, sessionVars,
                   arrivals, reset_since_advance, harnessVars>>

\* line 204: while (phase != PHASE_CONVERT && running)
a204 ==
    /\ Runs(AccumThread) /\ apc = "a204"
    /\ phase = PHASE_CONVERT \/ ~running
    /\ apc' = "a209"
    /\ UNCHANGED <<inputVars, configVars, barrierVars, ai, coordVars, convVars, mainVars, sigVars,
                   fileVars, sessionVars, histVars, harnessVars>>

\* line 209: while (phase != PHASE_CLEANUP && running)
a209 ==
    /\ Runs(AccumThread) /\ apc = "a209"
    /\ phase = PHASE_CLEANUP \/ ~running
    /\ apc' = "a214"
    /\ ai' = 0
    /\ UNCHANGED <<inputVars, configVars, barrierVars, coordVars, convVars, mainVars, sigVars,
                   fileVars, sessionVars, histVars, harnessVars>>

\* lines 214-220: one iteration of the cleanup loop: close, fd = -1, unlink
a214 ==
    /\ Runs(AccumThread) /\ apc = "a214"
    /\ file_fds' = [file_fds EXCEPT ![ai] = FALSE]
    /\ ai' = ai + 1
    /\ apc' = IF ai + 1 < num_files THEN "a214" ELSE "a223"
    /\ UNCHANGED <<inputVars, configVars, phase, ready_count, burst_count, total_conversions,
                   running, coordVars, convVars, mainVars, sigVars, fileVars,
                   sessionVars, histVars, harnessVars>>

\* line 223: atomic_store(&barrier.phase, PHASE_ACCUMULATE)
a223 ==
    /\ Runs(AccumThread) /\ apc = "a223"
    /\ StorePhase(PHASE_ACCUMULATE)
    /\ apc' = "a187"
    /\ UNCHANGED <<inputVars, configVars, ready_count, burst_count, total_conversions, running,
                   file_fds, ai, coordVars, convVars, mainVars, sigVars, fileVars,
                   sessionVars, arrivals, acc_signalled, harnessVars>>

accumulator_thread == a187 \/ a193 \/ a202 \/ a204 \/ a209 \/ a214 \/ a223

(***************************************************************************)
(* converter_thread, burst-trigger.c:233-286                               *)
(***************************************************************************)
\* lines 241-242: this converter's portion of the files
PartStart(id) == (id * num_files) \div num_converters
\* PartEnd as it would be with a fixed chunk of num_files / num_converters items
PartEndChunk(id) == PartStart(id) + (num_files \div num_converters)
PartEnd(id) == ((id + 1) * num_files) \div num_converters

\* line 247: while (atomic_load(&running))
v247(id) ==
    /\ Runs(ConvThread(id)) /\ vpc[id] = "v247"
    /\ vpc' = [vpc EXCEPT ![id] = IF running THEN "v249" ELSE "done"]
    /\ UNCHANGED <<inputVars, configVars, barrierVars, coordVars, accVars, vi, local_conversions,
                   mainVars, sigVars, fileVars, sessionVars, histVars, harnessVars>>

\* v249 as it would be if the wait tested the phase only
v249_phase_only(id) ==
    /\ Runs(ConvThread(id)) /\ vpc[id] = "v249"
    /\ phase = PHASE_CONVERT
    /\ vpc' = [vpc EXCEPT ![id] = "v253"]
    /\ UNCHANGED <<inputVars, configVars, barrierVars, coordVars, accVars, vi, local_conversions,
                   mainVars, sigVars, fileVars, sessionVars, histVars, harnessVars>>

\* line 249: while (phase != PHASE_CONVERT && running)
v249(id) ==
    /\ Runs(ConvThread(id)) /\ vpc[id] = "v249"
    /\ phase = PHASE_CONVERT \/ ~running
    /\ vpc' = [vpc EXCEPT ![id] = "v253"]
    /\ UNCHANGED <<inputVars, configVars, barrierVars, coordVars, accVars, vi, local_conversions,
                   mainVars, sigVars, fileVars, sessionVars, histVars, harnessVars>>

\* line 253: if (!atomic_load(&running)) break;  then the loop starts at `start`
v253(id) ==
    /\ Runs(ConvThread(id)) /\ vpc[id] = "v253"
    /\ vpc' = [vpc EXCEPT ![id] =
                  IF ~running THEN "done"
                  ELSE IF PartStart(id) < PartEnd(id) THEN "v259" ELSE "v269"]
    /\ vi' = [vi EXCEPT ![id] = PartStart(id)]
    /\ UNCHANGED <<inputVars, configVars, barrierVars, coordVars, accVars, local_conversions,
                   mainVars, sigVars, fileVars, sessionVars, histVars, harnessVars>>

\* lines 259-267: one iteration of the conversion loop: an item whose handle is
\* open is truncated and rewritten and counted in local_conversions
v259(id) ==
    /\ Runs(ConvThread(id)) /\ vpc[id] = "v259"
    /\ local_conversions' =
          [local_conversions EXCEPT ![id] = IF file_fds[vi[id]] THEN @ + 1 ELSE @]
    /\ vi' = [vi EXCEPT ![id] = @ + 1]
    /\ vpc' = [vpc EXCEPT ![id] = IF vi[id] + 1 < PartEnd(id) THEN "v259" ELSE "v269"]
    /\ UNCHANGED <<inputVars, configVars, barrierVars, coordVars, accVars, mainVars, sigVars,
                   fileVars, sessionVars, histVars, harnessVars>>

\* v269 as it would be with the operands of the difference exchanged
v269_swapped(id) ==
    /\ Runs(ConvThread(id)) /\ vpc[id] = "v269"
    /\ total_conversions + (PartEnd(id) - PartStart(id)) <= MaxConversions \/ ~running
    /\ total_conversions' = total_conversions + (PartStart(id) - PartEnd(id))
    /\ vpc' = [vpc EXCEPT ![id] = "v272"]
    /\ UNCHANGED <<inputVars, configVars, phase, ready_count, burst_count, running,
                   file_fds, coordVars, accVars, vi, local_conversions, mainVars,
                   sigVars, fileVars, sessionVars, histVars, harnessVars>>

\* line 269: atomic_fetch_add(&total_conversions, end - start)
v269(id) ==
    /\ Runs(ConvThread(id)) /\ vpc[id] = "v269"
    /\ total_conversions + (PartEnd(id) - PartStart(id)) <= MaxConversions \/ ~running
    /\ total_conversions' = total_conversions + (PartEnd(id) - PartStart(id))
    /\ vpc' = [vpc EXCEPT ![id] = "v272"]
    /\ UNCHANGED <<inputVars, configVars, phase, ready_count, burst_count, running, file_fds,
                   coordVars, accVars, vi, local_conversions, mainVars, sigVars,
                   fileVars, sessionVars, histVars, harnessVars>>

\* lines 272-273: ready = atomic_fetch_add(&barrier.ready_count, 1) + 1;
\*                if (ready == (uint)num_converters)
v272(id) ==
    /\ Runs(ConvThread(id)) /\ vpc[id] = "v272"
    /\ ready_count < MaxReady \/ ~running
    /\ ready_count' = ready_count + 1
    /\ vpc' = [vpc EXCEPT ![id] =
                  IF ready_count + 1 = num_converters THEN "v275" ELSE "v280"]
    /\ arrivals' = [arrivals EXCEPT ![id] = Bump(@)]
    /\ UNCHANGED <<inputVars, configVars, phase, burst_count, total_conversions, running, file_fds,
                   coordVars, accVars, vi, local_conversions, mainVars, sigVars,
                   fileVars, sessionVars, acc_signalled, reset_since_advance,
                   harnessVars>>

\* line 275: atomic_store(&barrier.ready_count, 0)
v275(id) ==
    /\ Runs(ConvThread(id)) /\ vpc[id] = "v275"
    /\ ready_count' = 0
    /\ reset_since_advance' = TRUE
    /\ vpc' = [vpc EXCEPT ![id] = "v276"]
    /\ UNCHANGED <<inputVars, configVars, phase, burst_count, total_conversions, running, file_fds,
                   coordVars, accVars, vi, local_conversions, mainVars, sigVars,
                   fileVars, sessionVars, arrivals, acc_signalled, harnessVars>>

\* line 276: atomic_store(&barrier.phase, PHASE_CLEANUP)
v276(id) ==
    /\ Runs(ConvThread(id)) /\ vpc[id] = "v276"
    /\ StorePhase(PHASE_CLEANUP)
    /\ vpc' = [vpc EXCEPT ![id] = "v280"]
    /\ UNCHANGED <<inputVars, configVars, ready_count, burst_count, total_conversions, running,
                   file_fds, coordVars, accVars, vi, local_conversions, mainVars,
                   sigVars, fileVars, sessionVars, arrivals, acc_signalled, harnessVars>>

\* line 280: while (phase == PHASE_CLEANUP && running)
v280(id) ==
    /\ Runs(ConvThread(id)) /\ vpc[id] = "v280"
    /\ phase # PHASE_CLEANUP \/ ~running
    /\ vpc' = [vpc EXCEPT ![id] = "v247"]
    /\ UNCHANGED <<inputVars, configVars, barrierVars, coordVars, accVars, vi, local_conversions,
                   mainVars, sigVars, fileVars, sessionVars, histVars, harnessVars>>

converter_thread(id) ==
    \/ v247(id) \/ v249(id) \/ v253(id) \/ v259(id) \/ v269(id)
    \/ v272(id) \/ v275(id) \/ v276(id) \/ v280(id)

(***************************************************************************)
(* struct run_state and STATE_FILE, burst-trigger.c:291-298, 40            *)
(***************************************************************************)
RunState(b, c, r, s) == [bursts |-> b, conversions |-> c, running |-> r, status |-> s]
NoState == RunState(0, 0, FALSE, "")

\* the file: absent, empty after O_TRUNC, or holding one full record
Absent == [exists |-> FALSE, full |-> FALSE, rec |-> NoState]
Truncated == [exists |-> TRUE, full |-> FALSE, rec |-> NoState]
Holding(st) == [exists |-> TRUE, full |-> TRUE, rec |-> st]

(***************************************************************************)
(* save_state, burst-trigger.c:300-316, in three steps                     *)
(***************************************************************************)
\* lines 301-308: the local run_state, filled from the atomics
save_state_load(status) ==
    RunState(burst_count, total_conversions, running, status)

\* line 310: open(STATE_FILE, O_WRONLY | O_CREAT | O_TRUNC, 0644)
save_state_open == Truncated

\* lines 312-314: write(fd, &state, sizeof(state)); fsync(fd); close(fd)
save_state_write(st) == Holding(st)

(***************************************************************************)
(* The memory of a process that no longer exists: no thread has a          *)
(* position, no variable a value.                                          *)
(***************************************************************************)
Gone ==
    /\ phase' = PHASE_ACCUMULATE /\ ready_count' = 0 /\ burst_count' = 0
    /\ total_conversions' = 0 /\ running' = FALSE
    /\ file_fds' = [i \in DOMAIN file_fds |-> FALSE]
    /\ cpc' = "gone" /\ bursts' = 0
    /\ apc' = "gone" /\ ai' = 0
    /\ vpc' = [id \in Converters |-> "gone"]
    /\ vi' = [id \in Converters |-> 0]
    /\ local_conversions' = [id \in Converters |-> 0]
    /\ mpc' = "gone" /\ msv' = "none" /\ mstate' = NoState /\ saves' = 0
    /\ signals' = 0 /\ hhost' = NoThread /\ hpc' = "idle" /\ hstate' = NoState
    /\ arrivals' = [id \in Converters |-> 0]
    /\ acc_signalled' = FALSE
    /\ reset_since_advance' = TRUE

(***************************************************************************)
(* main, burst-trigger.c:476-518 (the threads are already started)         *)
(***************************************************************************)
\* lines 477 and 484: save_state("running"), its loads
m_save_load ==
    /\ Runs(MainThread) /\ mpc \in {"m477", "m484"} /\ msv = "load"
    /\ mstate' = save_state_load("running")
    /\ msv' = "open"
    /\ UNCHANGED <<inputVars, configVars, barrierVars, coordVars, accVars, convVars, mpc, saves,
                   sigVars, fileVars, sessionVars, histVars, harnessVars>>

m_save_open ==
    /\ Runs(MainThread) /\ mpc \in {"m477", "m484"} /\ msv = "open"
    /\ state_file' = save_state_open
    /\ msv' = "write"
    /\ UNCHANGED <<inputVars, configVars, barrierVars, coordVars, accVars, convVars, mpc, mstate,
                   saves, sigVars, sessionVars, histVars, harnessVars>>

m_save_write ==
    /\ Runs(MainThread) /\ mpc \in {"m477", "m484"} /\ msv = "write"
    /\ state_file' = save_state_write(mstate)
    /\ msv' = "none"
    /\ mstate' = NoState
    /\ saves' = IF mpc = "m484" THEN saves + 1 ELSE saves
    /\ mpc' = "m482"
    /\ UNCHANGED <<inputVars, configVars, barrierVars, coordVars, accVars, convVars, sigVars,
                   sessionVars, histVars, harnessVars>>

\* lines 482-483: while (atomic_load(&running)) { sleep(1); ...
m482 ==
    /\ Runs(MainThread) /\ mpc = "m482"
    /\ saves < MaxSaves \/ ~running
    /\ IF running
       THEN mpc' = "m484" /\ msv' = "load"
       ELSE mpc' = "m489" /\ msv' = "none"
    /\ UNCHANGED <<inputVars, configVars, barrierVars, coordVars, accVars, convVars, mstate, saves,
                   sigVars, fileVars, sessionVars, histVars, harnessVars>>

\* lines 489-493: pthread_join of the coordinator, the accumulator, every converter
m489 ==
    /\ Runs(MainThread) /\ mpc = "m489"
    /\ cpc = "done" /\ apc = "done" /\ \A id \in Converters : vpc[id] = "done"
    /\ mpc' = "m508"
    /\ UNCHANGED <<inputVars, configVars, barrierVars, coordVars, accVars, convVars, msv, mstate,
                   saves, sigVars, fileVars, sessionVars, histVars, harnessVars>>

\* line 508: unlink(STATE_FILE)
m508 ==
    /\ Runs(MainThread) /\ mpc = "m508"
    /\ state_file' = Absent
    /\ mpc' = "m518"
    /\ UNCHANGED <<inputVars, configVars, barrierVars, coordVars, accVars, convVars, msv, mstate,
                   saves, sigVars, sessionVars, histVars, harnessVars>>

\* lines 511-518: free the arrays; return 0.  The process is gone and with it
\* every thread and all of its memory; STATE_FILE stays as it is.
m518 ==
    /\ Runs(MainThread) /\ mpc = "m518"
    /\ proc' = "exited"
    /\ Gone
    /\ UNCHANGED <<inputVars, configVars, fileVars, checks, check_ret, report, pre_check_file,
                   harnessVars>>

main == m_save_load \/ m_save_open \/ m_save_write \/ m482 \/ m489 \/ m508 \/ m518

(***************************************************************************)
(* sighandler, burst-trigger.c:340-345, installed at lines 442-443.        *)
(* SIGINT or SIGTERM is delivered to any thread of the process that has    *)
(* not terminated; the handler runs on top of that thread.  One handler    *)
(* runs at a time.                                                         *)
(***************************************************************************)
LiveThreads ==
    {MainThread}
    \cup (IF cpc # "done" THEN {CoordThread} ELSE {})
    \cup (IF apc # "done" THEN {AccumThread} ELSE {})
    \cup {ConvThread(id) : id \in {i \in Converters : vpc[i] # "done"}}

deliver_signal ==
    /\ proc = "run" /\ hhost = NoThread /\ signals < MaxSignals
    /\ \E t \in LiveThreads : hhost' = t
    /\ hpc' = "h343"
    /\ signals' = signals + 1
    /\ UNCHANGED <<inputVars, configVars, barrierVars, coordVars, accVars, convVars, mainVars,
                   hstate, fileVars, sessionVars, histVars, harnessVars>>

\* line 343: atomic_store(&running, 0)
h343 ==
    /\ proc = "run" /\ hpc = "h343"
    /\ running' = FALSE
    /\ hpc' = "load"
    /\ UNCHANGED <<inputVars, configVars, phase, ready_count, burst_count, total_conversions,
                   file_fds, coordVars, accVars, convVars, mainVars, signals, hhost,
                   hstate, fileVars, sessionVars, histVars, harnessVars>>

\* line 344: save_state("stopped by signal")
h_save_load ==
    /\ proc = "run" /\ hpc = "load"
    /\ hstate' = save_state_load("stopped by signal")
    /\ hpc' = "open"
    /\ UNCHANGED <<inputVars, configVars, barrierVars, coordVars, accVars, convVars, mainVars,
                   signals, hhost, fileVars, sessionVars, histVars, harnessVars>>

h_save_open ==
    /\ proc = "run" /\ hpc = "open"
    /\ state_file' = save_state_open
    /\ hpc' = "write"
    /\ UNCHANGED <<inputVars, configVars, barrierVars, coordVars, accVars, convVars, mainVars,
                   signals, hhost, hstate, sessionVars, histVars, harnessVars>>

\* the handler returns and its thread resumes
h_save_write ==
    /\ proc = "run" /\ hpc = "write"
    /\ state_file' = save_state_write(hstate)
    /\ hpc' = "idle"
    /\ hhost' = NoThread
    /\ hstate' = NoState
    /\ UNCHANGED <<inputVars, configVars, barrierVars, coordVars, accVars, convVars, mainVars,
                   signals, sessionVars, histVars, harnessVars>>

sighandler == h343 \/ h_save_load \/ h_save_open \/ h_save_write

(***************************************************************************)
(* The process dies abruptly (the kernel bug the reproducer provokes).     *)
(***************************************************************************)
crash ==
    /\ proc = "run"
    /\ proc' = "crashed"
    /\ Gone
    /\ UNCHANGED <<inputVars, configVars, fileVars, checks, check_ret, report, pre_check_file,
                   harnessVars>>

(***************************************************************************)
(* check_previous_crash, burst-trigger.c:318-338, called by the next       *)
(* invocation (line 401) once the process is gone; what it returns, what   *)
(* it prints and what it leaves on disk.                                   *)
(***************************************************************************)
\* check_ret_of as it would be without the test of state.running (line 325)
check_ret_any(f) == IF f.exists /\ f.full THEN 1 ELSE 0
check_ret_of(f) == IF f.exists /\ f.full /\ f.rec.running THEN 1 ELSE 0
check_report_of(f) == IF check_ret_of(f) = 1 THEN f.rec ELSE NoState
\* check_file_after as it would be without the unlink of line 332
check_file_kept(f) == f
check_file_after(f) == IF check_ret_of(f) = 1 THEN Absent ELSE f

check_previous_crash ==
    /\ proc \in {"exited", "crashed"} /\ checks < 2
    /\ check_ret' = check_ret_of(state_file)
    /\ report' = check_report_of(state_file)
    /\ state_file' = check_file_after(state_file)
    /\ pre_check_file' = IF checks = 0 THEN state_file ELSE pre_check_file
    /\ checks' = checks + 1
    /\ UNCHANGED <<inputVars, configVars, barrierVars, coordVars, accVars, convVars, mainVars,
                   sigVars, proc, histVars, harnessVars>>

(***************************************************************************)
(* The running system: the state when main has started every thread        *)
(* (line 474), before the first save_state.                                *)
(***************************************************************************)
InitWith(n) ==
    /\ num_converters = n
    /\ num_files = NumFiles
    /\ phase = PHASE_ACCUMULATE /\ ready_count = 0 /\ burst_count = 0
    /\ total_conversions = 0 /\ running = TRUE
    /\ file_fds = [i \in 0 .. (NumFiles - 1) |-> FALSE]
    /\ cpc = "c127" /\ bursts = 0
    /\ apc = "a187" /\ ai = 0
    /\ vpc = [id \in 0 .. (n - 1) |-> "v247"]
    /\ vi = [id \in 0 .. (n - 1) |-> 0]
    /\ local_conversions = [id \in 0 .. (n - 1) |-> 0]
    /\ mpc = "m477" /\ msv = "load" /\ mstate = NoState /\ saves = 0
    /\ signals = 0 /\ hhost = NoThread /\ hpc = "idle" /\ hstate = NoState
    /\ state_file = Absent
    /\ proc = "run" /\ checks = 0 /\ check_ret = 0 /\ report = NoState
    /\ pre_check_file = Absent
    /\ arrivals = [id \in 0 .. (n - 1) |-> 0]
    /\ acc_signalled = FALSE
    /\ reset_since_advance = TRUE
    /\ b_phase0 = PHASE_ACCUMULATE /\ b_next = PHASE_ACCUMULATE /\ b_count = 1
    /\ bpc = [k \in 1 .. 1 |-> "ret"] /\ b_ready = [k \in 1 .. 1 |-> 0]
    /\ b_advances = 0
    /\ arg_files = NumFiles /\ arg_converters = n /\ p_parts = <<>>

(***************************************************************************)
(* Spec: the whole program with one converter: the worker threads, main,   *)
(* the signal handler step by step, STATE_FILE, the death of the process   *)
(* and the next invocation's check_previous_crash.                         *)
(***************************************************************************)
Init == InitWith(1)

Next ==
    \/ coordinator_thread
    \/ accumulator_thread
    \/ \E id \in Converters : converter_thread(id)
    \/ main
    \/ deliver_signal
    \/ sighandler
    \/ crash
    \/ check_previous_crash

Spec == Init /\ [][Next]_vars

(***************************************************************************)
(* BurstSpec: the burst cycle for 1..MaxConverters converters.  Of the     *)
(* signal handler the worker threads see only its store to `running`       *)
(* (line 343): save_state, main's snapshots and the unlink write           *)
(* STATE_FILE and their own locals, which no worker thread reads, so here  *)
(* the handler is the one step `shutdown` and main takes no step.          *)
(***************************************************************************)
shutdown ==
    /\ proc = "run" /\ running
    /\ running' = FALSE
    /\ UNCHANGED <<inputVars, configVars, phase, ready_count, burst_count, total_conversions,
                   file_fds, coordVars, accVars, convVars, mainVars, sigVars, fileVars,
                   sessionVars, histVars, harnessVars>>

BurstInit == \E n \in 1 .. MaxConverters : InitWith(n)

BurstNext ==
    \/ coordinator_thread
    \/ accumulator_thread
    \/ \E id \in Converters : converter_thread(id)
    \/ shutdown

BurstSpec == BurstInit /\ [][BurstNext]_vars

\* every thread that can take a step eventually takes one: each worker is an
\* operating-system thread of its own (pthread_create, lines 459-474)
FairBurstSpec ==
    /\ BurstSpec
    /\ WF_vars(coordinator_thread)
    /\ WF_vars(accumulator_thread)
    /\ \A id \in 0 .. (MaxConverters - 1) :
           WF_vars(id \in Converters /\ converter_thread(id))

(***************************************************************************)
(* barrier_signal_and_wait(next_phase, worker_count), burst-trigger.c:100- *)
(* 113, called by b_count threads, each once, from ready_count = 0.        *)
(***************************************************************************)
\* BarrierReady as it would be without the + 1 of line 101
BarrierReadyStale(old) == old

\* line 101: ready = atomic_fetch_add(&barrier.ready_count, 1) + 1
BarrierReady(old) == old + 1

Callers == DOMAIN bpc

\* lines 101-103: the increment and the comparison with worker_count
b101(k) ==
    /\ bpc[k] = "idle"
    /\ ready_count' = ready_count + 1
    /\ b_ready' = [b_ready EXCEPT ![k] = BarrierReady(ready_count)]
    /\ bpc' = [bpc EXCEPT ![k] =
                  IF BarrierReady(ready_count) = b_count THEN "b105" ELSE "b109"]
    /\ UNCHANGED <<inputVars, configVars, phase, burst_count, total_conversions, running, file_fds,
                   coordVars, accVars, convVars, mainVars, sigVars, fileVars,
                   sessionVars, histVars, b_phase0, b_next, b_count, b_advances>>

\* line 105: atomic_store(&barrier.ready_count, 0)
b105(k) ==
    /\ bpc[k] = "b105"
    /\ ready_count' = 0
    /\ bpc' = [bpc EXCEPT ![k] = "b106"]
    /\ UNCHANGED <<inputVars, configVars, phase, burst_count, total_conversions, running, file_fds,
                   coordVars, accVars, convVars, mainVars, sigVars, fileVars,
                   sessionVars, histVars, b_phase0, b_next, b_count, b_ready,
                   b_advances>>

\* line 106: atomic_store(&barrier.phase, next_phase); the call returns
b106(k) ==
    /\ bpc[k] = "b106"
    /\ phase' = b_next
    /\ b_advances' = b_advances + 1
    /\ bpc' = [bpc EXCEPT ![k] = "ret"]
    /\ UNCHANGED <<inputVars, configVars, ready_count, burst_count, total_conversions, running,
                   file_fds, coordVars, accVars, convVars, mainVars, sigVars, fileVars,
                   sessionVars, histVars, b_phase0, b_next, b_count, b_ready>>

\* line 109: while (phase != next_phase && running); the call returns
b109(k) ==
    /\ bpc[k] = "b109"
    /\ phase = b_next \/ ~running
    /\ bpc' = [bpc EXCEPT ![k] = "ret"]
    /\ UNCHANGED <<inputVars, configVars, barrierVars, coordVars, accVars, convVars, mainVars,
                   sigVars, fileVars, sessionVars, histVars, b_phase0, b_next, b_count,
                   b_ready, b_advances>>

barrier_signal_and_wait(k) == b101(k) \/ b105(k) \/ b106(k) \/ b109(k)

BarrierInit ==
    \E p0 \in Phases, nx \in Phases, n \in 1 .. MaxQuorum :
        /\ num_converters = 1
        /\ num_files = NumFiles
        /\ phase = p0 /\ ready_count = 0 /\ burst_count = 0
        /\ total_conversions = 0 /\ running = TRUE
        /\ file_fds = [i \in 0 .. (NumFiles - 1) |-> FALSE]
        /\ cpc = "c127" /\ bursts = 0
        /\ apc = "a187" /\ ai = 0
        /\ vpc = [id \in 0 .. 0 |-> "v247"]
        /\ vi = [id \in 0 .. 0 |-> 0]
        /\ local_conversions = [id \in 0 .. 0 |-> 0]
        /\ mpc = "m477" /\ msv = "load" /\ mstate = NoState /\ saves = 0
        /\ signals = 0 /\ hhost = NoThread /\ hpc = "idle" /\ hstate = NoState
        /\ state_file = Absent
        /\ proc = "run" /\ checks = 0 /\ check_ret = 0 /\ report = NoState
        /\ pre_check_file = Absent
        /\ arrivals = [id \in 0 .. 0 |-> 0]
        /\ acc_signalled = FALSE
        /\ reset_since_advance = TRUE
        /\ b_phase0 = p0 /\ b_next = nx /\ b_count = n
        /\ bpc = [k \in 1 .. n |-> "idle"] /\ b_ready = [k \in 1 .. n |-> 0]
        /\ b_advances = 0
        /\ arg_files = NumFiles /\ arg_converters = 1 /\ p_parts = <<>>

BarrierNext ==
    \/ \E k \in Callers : barrier_signal_and_wait(k)
    \/ shutdown

BarrierSpec == BarrierInit /\ [][BarrierNext]_vars

(***************************************************************************)
(* Properties of the burst cycle                                           *)
(***************************************************************************)
\* C1: while running is set, the phase changes from CONVERT to CLEANUP only
\* when every one of the num_converters converters has finished its pass and
\* arrived exactly once since the phase was stored CONVERT.
C1_CleanupAfterAllConverters ==
    [][(running /\ phase = PHASE_CONVERT /\ phase' = PHASE_CLEANUP)
          => \A id \in Converters : arrivals'[id] = 1]_vars

\* C2: barrier_signal_and_wait with worker_count = b_count from a counter of
\* zero: while fewer than b_count calls have been made the phase is never
\* advanced; once the call that made the counter b_count has returned the phase
\* is next_phase; the phase is advanced at most once, and when all b_count
\* calls have returned it was advanced exactly once and the counter is zero.
C2_BarrierQuorum ==
    LET called == {k \in Callers : bpc[k] # "idle"}
        returned == {k \in Callers : bpc[k] = "ret"}
    IN  /\ b_advances <= 1
        /\ Cardinality(called) < b_count => (b_advances = 0 /\ phase = b_phase0)
        /\ \A k \in returned : b_ready[k] = b_count => phase = b_next
        /\ returned = Callers =>
               (b_advances = 1 /\ phase = b_next /\ ready_count = 0)

\* three or more callers, all returned, the phase moved, nobody gave up waiting
C2_Witness ==
    /\ b_count = MaxQuorum
    /\ \A k \in Callers : bpc[k] = "ret"
    /\ b_phase0 # b_next /\ phase = b_next
    /\ running

\* C3: while running is set, every change of barrier.phase goes to the next
\* phase of the cycle ACCUMULATE -> TRIGGER -> CONVERT -> CLEANUP -> ACCUMULATE.
C3_PhaseCycleOrder ==
    [][(running /\ phase' # phase) => phase' = (phase + 1) % 4]_vars

\* C4: while running is set, no phase advance without a reset of ready_count
\* to zero since the advance before it.
C4_ResetBetweenAdvances ==
    [][(running /\ phase' # phase) => reset_since_advance]_vars

\* C5: while running is set, the coordinator stores TRIGGER over ACCUMULATE
\* only when the accumulator has finished a creation pass over all items and
\* signalled since the last store of TRIGGER.
C5_TriggerAfterAccumulation ==
    [][(running /\ phase = PHASE_ACCUMULATE /\ phase' = PHASE_TRIGGER)
          => acc_signalled]_vars

AtBound ==
    /\ running
    /\ \/ cpc = "c163" /\ bursts >= MaxBursts
       \/ apc = "a202" /\ ready_count >= MaxReady
       \/ \E id \in Converters :
              \/ vpc[id] = "v272" /\ ready_count >= MaxReady
              \/ /\ vpc[id] = "v269"
                 /\ total_conversions + (PartEnd(id) - PartStart(id)) > MaxConversions

\* C7: under fair scheduling and while running, a phase of CLEANUP is followed
\* by a phase of ACCUMULATE.
C7_CleanupLeadsToAccumulate ==
    (phase = PHASE_CLEANUP) ~> (phase = PHASE_ACCUMULATE \/ ~running \/ AtBound)

(***************************************************************************)
(* Shutdown: the steps a thread has left once running is false             *)
(***************************************************************************)
CoordSteps ==
    CASE cpc = "c131" -> 7
      [] cpc = "c132" -> 6
      [] cpc = "c141" -> 5
      [] cpc = "c155" -> 4
      [] cpc = "c158" -> 3
      [] cpc = "c163" -> 2
      [] cpc \in {"c127", "c133", "c159"} -> 1
      [] OTHER -> 0

AccumSteps ==
    CASE apc = "a193" -> 6 + num_files
      [] apc = "a202" -> 5 + num_files
      [] apc = "a204" -> 4 + num_files
      [] apc = "a209" -> 3 + num_files
      [] apc = "a214" -> 2 + (num_files - ai)
      [] apc = "a223" -> 2
      [] apc = "a187" -> 1
      [] OTHER -> 0

ConvSteps(id) ==
    CASE vpc[id] = "v259" -> 6 + (PartEnd(id) - vi[id])
      [] vpc[id] = "v269" -> 6
      [] vpc[id] = "v272" -> 5
      [] vpc[id] = "v275" -> 4
      [] vpc[id] = "v276" -> 3
      [] vpc[id] \in {"v249", "v280"} -> 2
      [] vpc[id] \in {"v247", "v253"} -> 1
      [] OTHER -> 0

RECURSIVE SumConvSteps(_)
SumConvSteps(S) ==
    IF S = {} THEN 0
    ELSE LET id == CHOOSE x \in S : TRUE
         IN  ConvSteps(id) + SumConvSteps(S \ {id})

StepsLeft == CoordSteps + AccumSteps + SumConvSteps(Converters)

AllDone == cpc = "done" /\ apc = "done" /\ \A id \in Converters : vpc[id] = "done"

\* C8: once running is false, every worker thread that has not terminated can
\* take a step, whatever the phase, and every step of a worker brings the
\* threads nearer to termination: after at most StepsLeft steps every worker
\* has terminated and the joins of main return.
C8_ShutdownTerminates ==
    /\ [](~running =>
            /\ cpc # "done" => ENABLED coordinator_thread
            /\ apc # "done" => ENABLED accumulator_thread
            /\ \A id \in Converters : vpc[id] # "done" => ENABLED converter_thread(id)
            /\ StepsLeft = 0 => AllDone)
    /\ [][~running => StepsLeft' < StepsLeft]_vars

\* every worker has terminated although the barrier was stuck in CONVERT with
\* the counter past the quorum
C8_Witness ==
    /\ ~running /\ AllDone
    /\ phase = PHASE_CONVERT /\ ready_count > num_converters

(***************************************************************************)
(* Properties of STATE_FILE                                                *)
(***************************************************************************)
\* C9: when STATE_FILE held a full record with running set as the process
\* went, the first check_previous_crash of the next invocation returns 1,
\* reports the bursts and conversions of that record and removes the file; a
\* second call returns 0.
C9_CrashRoundTrip ==
    (checks >= 1 /\ pre_check_file.full /\ pre_check_file.rec.running) =>
        /\ ~state_file.exists
        /\ checks = 1 =>
               /\ check_ret = 1
               /\ report.bursts = pre_check_file.rec.bursts
               /\ report.conversions = pre_check_file.rec.conversions
               /\ report.status = pre_check_file.rec.status
        /\ checks = 2 => check_ret = 0

\* a record with running set and a conversion counted, checked twice
C9_Witness ==
    /\ checks = 2
    /\ pre_check_file.full /\ pre_check_file.rec.running
    /\ pre_check_file.rec.conversions > 0

\* C10: when main has returned, STATE_FILE does not exist.
C10_NoRecordAfterExit ==
    (proc = "exited" /\ checks = 0) => ~state_file.exists

\* C11: when the process dies abruptly after main's first snapshot (line 477)
\* has returned and before any shutdown signal has been delivered, STATE_FILE
\* is left such that the next invocation's check_previous_crash returns 1.
C11_CrashAlwaysDetected ==
    [][(proc = "run" /\ signals = 0 /\ mpc # "m477" /\ proc' = "crashed")
          => check_ret_of(state_file') = 1]_vars

\* save_state executions that have opened (and truncated) STATE_FILE and not
\* yet written and closed it, lines 310-314
OpenWriters ==
    (IF proc = "run" /\ mpc \in {"m477", "m484"} /\ msv = "write" THEN {"main"} ELSE {})
    \cup (IF proc = "run" /\ hpc = "write" THEN {"sighandler"} ELSE {})

\* C12: at no time are two executions of save_state between their open of
\* STATE_FILE and their close.
C12_WritersExcluded == Cardinality(OpenWriters) <= 1

\* C13: when STATE_FILE is absent, or shorter than a full record, or holds a
\* record with running = 0, check_previous_crash returns 0, prints no record
\* and leaves the file as it was; a second call returns 0 as well.
C13_NoCrashReported ==
    /\ (checks = 1 /\ ~(pre_check_file.exists /\ pre_check_file.full
                         /\ pre_check_file.rec.running)) =>
           (check_ret = 0 /\ report = NoState /\ state_file = pre_check_file)
    /\ checks = 2 => check_ret = 0

\* the next invocation has checked a full record left with running = 0
C13_Witness ==
    /\ checks = 1 /\ check_ret = 0
    /\ pre_check_file.exists /\ pre_check_file.full /\ ~pre_check_file.rec.running
    /\ pre_check_file.rec.status = "stopped by signal"

(***************************************************************************)
(* PartitionSpec: the partitions of lines 241-242 alone, for every         *)
(* num_converters in 1..PartW and num_files in 0..PartF; each converter    *)
(* computes its own, in any order.                                         *)
(***************************************************************************)
partition(id) ==
    /\ id \notin DOMAIN p_parts
    /\ p_parts' = [i \in DOMAIN p_parts \cup {id} |->
                      IF i = id THEN [start |-> PartStart(id), end |-> PartEnd(id)]
                      ELSE p_parts[i]]
    /\ UNCHANGED <<arg_files, arg_converters, configVars, barrierVars, coordVars,
                   accVars, convVars, mainVars, sigVars, fileVars, sessionVars,
                   histVars, harnessVars>>

PartitionInit ==
    \E w \in 1 .. PartW, f \in 0 .. PartF :
        /\ num_converters = w /\ num_files = f
        /\ arg_files = f /\ arg_converters = w /\ p_parts = <<>>
        /\ phase = PHASE_ACCUMULATE /\ ready_count = 0 /\ burst_count = 0
        /\ total_conversions = 0 /\ running = TRUE
        /\ file_fds = [i \in 0 .. (f - 1) |-> FALSE]
        /\ cpc = "c127" /\ bursts = 0
        /\ apc = "a187" /\ ai = 0
        /\ vpc = [id \in 0 .. (w - 1) |-> "v247"]
        /\ vi = [id \in 0 .. (w - 1) |-> 0]
        /\ local_conversions = [id \in 0 .. (w - 1) |-> 0]
        /\ mpc = "m477" /\ msv = "load" /\ mstate = NoState /\ saves = 0
        /\ signals = 0 /\ hhost = NoThread /\ hpc = "idle" /\ hstate = NoState
        /\ state_file = Absent
        /\ proc = "run" /\ checks = 0 /\ check_ret = 0 /\ report = NoState
        /\ pre_check_file = Absent
        /\ arrivals = [id \in 0 .. (w - 1) |-> 0]
        /\ acc_signalled = FALSE
        /\ reset_since_advance = TRUE
        /\ b_phase0 = PHASE_ACCUMULATE /\ b_next = PHASE_ACCUMULATE /\ b_count = 1
        /\ bpc = [k \in 1 .. 1 |-> "ret"] /\ b_ready = [k \in 1 .. 1 |-> 0]
        /\ b_advances = 0

PartitionNext == \E id \in Converters : partition(id)

PartitionSpec == PartitionInit /\ [][PartitionNext]_vars

\* C14: every partition has 0 <= start <= end <= num_files, and once every
\* converter has computed its own they are contiguous from 0 to num_files and
\* every item of 0 .. num_files-1 lies in exactly one of them.
C14_PartitionsCover ==
    /\ \A i \in DOMAIN p_parts :
           /\ 0 <= p_parts[i].start
           /\ p_parts[i].start <= p_parts[i].end
           /\ p_parts[i].end <= num_files
    /\ DOMAIN p_parts = Converters =>
           /\ p_parts[0].start = 0
           /\ p_parts[num_converters - 1].end = num_files
           /\ \A i \in 0 .. (num_converters - 2) : p_parts[i].end = p_parts[i + 1].start
           /\ \A j \in 0 .. (num_files - 1) :
                  Cardinality({i \in Converters :
                                  p_parts[i].start <= j /\ j < p_parts[i].end}) = 1

\* fewer items than converters: all partitions computed, one of them empty
C14_Witness ==
    /\ DOMAIN p_parts = Converters
    /\ 0 < num_files /\ num_files < num_converters
    /\ \E i \in Converters : p_parts[i].start = p_parts[i].end

\* C15: no step of any thread lowers total_conversions or barrier.burst_count.
C15_CountersMonotone ==
    [][total_conversions' >= total_conversions /\ burst_count' >= burst_count]_vars

\* both counters have been raised
C15_Witness == proc = "run" /\ total_conversions > 0 /\ burst_count > 0

(***************************************************************************)
(* ClampSpec: main's reading of -f and -c and the bounds checking,         *)
(* burst-trigger.c:363-393, for numbers inside and outside the range of    *)
(* int.                                                                    *)
(***************************************************************************)
DEFAULT_FILES_PER_BATCH == 1000
DEFAULT_CONVERTERS == 16

IntMax == 2 ^ (IntBits - 1) - 1
IntMin == 0 - 2 ^ (IntBits - 1)

\* the numbers given on the command line
Given ==
    {IntMin - 11, IntMin - 1, IntMin, -1, 0, 1, 9, 10, 11, 63, 64, 65, 9999, 10000,
     10001, IntMax, IntMax + 1, 2 ^ IntBits + 10, 2 ^ IntBits + 64}

\* conversion of a wider integer to int
Wrap(g) == ((g + 2 ^ (IntBits - 1)) % (2 ^ IntBits)) - 2 ^ (IntBits - 1)

\* atoi (lines 373, 375): the number when int can hold it; when it cannot the
\* behaviour is undefined, and the builds give (int)strtol(...), which is the
\* number wrapped or LONG_MAX / LONG_MIN wrapped where long is wider than int
\* and INT_MAX / INT_MIN where it is not
atoi(g) ==
    IF IntMin <= g /\ g <= IntMax THEN {g}
    ELSE {Wrap(g), IF g > 0 THEN -1 ELSE 0, IF g > 0 THEN IntMax ELSE IntMin}

\* line 373: num_files = atoi(argv[++i])
m373 ==
    /\ mpc = "m373"
    /\ num_files' \in atoi(arg_files)
    /\ mpc' = "m375"
    /\ UNCHANGED <<inputVars, num_converters, barrierVars, coordVars, accVars, convVars,
                   msv, mstate, saves, sigVars, fileVars, sessionVars, histVars,
                   harnessVars>>

\* line 375: num_converters = atoi(argv[++i])
m375 ==
    /\ mpc = "m375"
    /\ num_converters' \in atoi(arg_converters)
    /\ mpc' = "m390"
    /\ UNCHANGED <<inputVars, num_files, barrierVars, coordVars, accVars, convVars,
                   msv, mstate, saves, sigVars, fileVars, sessionVars, histVars,
                   harnessVars>>

\* lines 390-391: if (num_files < 10) num_files = 10;
\*                if (num_files > 10000) num_files = 10000;
m390 ==
    /\ mpc = "m390"
    /\ num_files' = IF num_files < 10 THEN 10
                    ELSE IF num_files > 10000 THEN 10000 ELSE num_files
    /\ mpc' = "m392"
    /\ UNCHANGED <<inputVars, num_converters, barrierVars, coordVars, accVars, convVars,
                   msv, mstate, saves, sigVars, fileVars, sessionVars, histVars,
                   harnessVars>>

\* lines 392-393: if (num_converters < 1) num_converters = 1;
\*                if (num_converters > 64) num_converters = 64;
m392 ==
    /\ mpc = "m392"
    /\ num_converters' = IF num_converters < 1 THEN 1
                         ELSE IF num_converters > 64 THEN 64 ELSE num_converters
    /\ mpc' = "m401"
    /\ UNCHANGED <<inputVars, num_files, barrierVars, coordVars, accVars, convVars,
                   msv, mstate, saves, sigVars, fileVars, sessionVars, histVars,
                   harnessVars>>

ClampInit ==
    \E f \in Given, c \in Given :
        /\ arg_files = f /\ arg_converters = c /\ p_parts = <<>>
        /\ num_files = DEFAULT_FILES_PER_BATCH /\ num_converters = DEFAULT_CONVERTERS
        /\ phase = PHASE_ACCUMULATE /\ ready_count = 0 /\ burst_count = 0
        /\ total_conversions = 0 /\ running = TRUE
        /\ file_fds = <<>>
        /\ cpc = "c127" /\ bursts = 0
        /\ apc = "a187" /\ ai = 0
        /\ vpc = <<>> /\ vi = <<>> /\ local_conversions = <<>>
        /\ mpc = "m373" /\ msv = "none" /\ mstate = NoState /\ saves = 0
        /\ signals = 0 /\ hhost = NoThread /\ hpc = "idle" /\ hstate = NoState
        /\ state_file = Absent
        /\ proc = "run" /\ checks = 0 /\ check_ret = 0 /\ report = NoState
        /\ pre_check_file = Absent
        /\ arrivals = <<>>
        /\ acc_signalled = FALSE
        /\ reset_since_advance = TRUE
        /\ b_phase0 = PHASE_ACCUMULATE /\ b_next = PHASE_ACCUMULATE /\ b_count = 1
        /\ bpc = [k \in 1 .. 1 |-> "ret"] /\ b_ready = [k \in 1 .. 1 |-> 0]
        /\ b_advances = 0

ClampNext == m373 \/ m375 \/ m390 \/ m392

ClampSpec == ClampInit /\ [][ClampNext]_vars

\* the nearest value of lo .. hi
Nearest(g, lo, hi) == IF g < lo THEN lo ELSE IF g > hi THEN hi ELSE g

\* C16: after the bounds checking, num_files is the number given with -f
\* brought to the nearest value of 10 .. 10000 and num_converters the number
\* given with -c brought to the nearest value of 1 .. 64.
C16_ClampedToNearestBound ==
    mpc = "m401" =>
        /\ num_files = Nearest(arg_files, 10, 10000)
        /\ num_converters = Nearest(arg_converters, 1, 64)

RECURSIVE SumLocal(_)
\* the sum of the converters' local_conversions
SumLocal(S) ==
    IF S = {} THEN 0
    ELSE LET id == CHOOSE x \in S : TRUE
         IN  local_conversions[id] + SumLocal(S \ {id})

\* C17: while running is set and no converter is between the start of its
\* conversion loop and its addition to total_conversions (lines 259-269),
\* total_conversions equals the sum of the converters' local_conversions.
C17_TotalIsSumOfLocal ==
    (running /\ \A id \in Converters : vpc[id] \notin {"v259", "v269"})
        => total_conversions = SumLocal(Converters)

\* C18: while running is set, a converter is inside its conversion loop over
\* file_fds (lines 259-267) only while the phase is CONVERT and the
\* accumulator is neither in its creation loop (lines 193-199) nor in its
\* cleanup loop (lines 214-220).
C18_HandlesFollowPhase ==
    running =>
        \A id \in Converters :
            vpc[id] = "v259" => (phase = PHASE_CONVERT /\ apc \notin {"a193", "a214"})

\* C19: when a signal has been delivered and no handler is running any more
\* (running is cleared and the handler's save_state has returned), a record
\* held by STATE_FILE has running = 0.
C19_RecordStoppedAfterHandler ==
    (proc = "run" /\ signals >= 1 /\ hhost = NoThread
        /\ state_file.exists /\ state_file.full)
        => ~state_file.rec.running

====
